---- MODULE Spec2Model ----
(***************************************************************************)
(* Model of DataManipulator.generateRow (DataManipulator.ts) and of the    *)
(* Graph component's lifecycle callbacks (Graph.tsx).                      *)
(*                                                                         *)
(* JavaScript numbers are modelled as exact fractions n/d in lowest terms  *)
(* with d >= 0; d = 0 encodes the non-finite values of IEEE-754:           *)
(*   1/0 = +Infinity, -1/0 = -Infinity, 0/0 = NaN.                         *)
(* Rounding of binary floating point and the sign of zero are not          *)
(* modelled.  The JavaScript value `undefined` is a value of its own.      *)
(***************************************************************************)
EXTENDS Integers, Sequences, FiniteSets, TLC

VARIABLES
    serverRespond,  \* argument of the current / last call of generateRow
    ret,            \* outcome of that call: not called, returned row, or thrown error
    mounted,        \* componentDidMount has run
    table,          \* Graph.table: "undefined" or "table"
    attrs,          \* attributes set on the <perspective-viewer> element
    props_data,     \* Graph.props.data
    updates,        \* sink: the batches passed to table.update, in call order
    calls           \* number of generateRow calls made by componentDidUpdate

vars == <<serverRespond, ret, mounted, table, attrs, props_data, updates, calls>>

-----------------------------------------------------------------------------
(* Bounds of the model *)

MaxPrice == 22
PriceSpan == 3
MaxTime == 2
MaxArrivals == 3

-----------------------------------------------------------------------------
(* JavaScript values *)

Abs(i) == IF i < 0 THEN -i ELSE i

Sign(i) == IF i < 0 THEN -1 ELSE IF i > 0 THEN 1 ELSE 0

RECURSIVE Gcd(_, _)
Gcd(a, b) == IF b = 0 THEN a ELSE Gcd(b, a % b)

Undefined == [t |-> "undefined", n |-> 0, d |-> 0]

\* The number n/d (d may be negative or zero), in canonical form.
Num(n, d) ==
    IF d = 0 THEN [t |-> "number", n |-> Sign(n), d |-> 0]
    ELSE LET g == Gcd(Abs(n), Abs(d))
             s == Sign(d)
         IN  [t |-> "number", n |-> (s * n) \div g, d |-> (s * d) \div g]

NaN == Num(0, 0)

Infinity == Num(1, 0)

IsNaN(x) == x.t = "number" /\ x.d = 0 /\ x.n = 0

IsFinite(x) == x.t = "number" /\ x.d > 0

\* ToNumber: undefined converts to NaN.
ToNumber(v) == IF v.t = "undefined" THEN NaN ELSE v

\* a + b on numbers (operands converted with ToNumber).
JsAdd(a, b) ==
    LET x == ToNumber(a)
        y == ToNumber(b)
    IN  IF x.d = 0 /\ y.d = 0
        THEN (IF x.n = y.n THEN x ELSE NaN)
        ELSE Num(x.n * y.d + y.n * x.d, x.d * y.d)

\* a - b on numbers.
JsSub(a, b) ==
    LET y == ToNumber(b)
    IN  JsAdd(a, [t |-> "number", n |-> -(y.n), d |-> y.d])

\* a / b on numbers: x/0 is +-Infinity for x # 0, and 0/0 is NaN; never throws.
JsDiv(a, b) ==
    LET x == ToNumber(a)
        y == ToNumber(b)
    IN  Num(x.n * y.d, x.d * y.n)

\* a > b and a < b on numbers: false whenever an operand is NaN.
JsGt(a, b) ==
    LET x == ToNumber(a)
        y == ToNumber(b)
    IN  ~IsNaN(x) /\ ~IsNaN(y) /\ x.n * y.d > y.n * x.d

JsLt(a, b) == JsGt(b, a)

-----------------------------------------------------------------------------
(* ServerRespond: the quote snapshots handed to generateRow *)

\* A top_ask / top_bid order; present = FALSE when the snapshot carries none.
NoOrder == [present |-> FALSE, price |-> Undefined]

Order(p) == [present |-> TRUE, price |-> p]

Quote(ask, bid, ts) == [top_ask |-> ask, top_bid |-> bid, timestamp |-> ts]

Prices == {0} \cup ((MaxPrice - PriceSpan)..MaxPrice)

Orders == {NoOrder, Order(Undefined)} \cup {Order(Num(p, 1)) : p \in Prices}

Times == 1..MaxTime

Quotes == {Quote(a, b, ts) : a \in Orders, b \in Orders, ts \in Times}

\* Every argument list of length 0, 1 or 2.
Inputs == {<<>>} \cup {<<q>> : q \in Quotes} \cup {<<p, q>> : p \in Quotes, q \in Quotes}

-----------------------------------------------------------------------------
(* DataManipulator.generateRow *)

\* Outcome of a call: a returned row, or a thrown error and no row.
NotCalled == [kind |-> "none", error |-> "", row |-> <<>>]

Return(row) == [kind |-> "return", error |-> "", row |-> <<row>>]

Throw(e) == [kind |-> "throw", error |-> e, row |-> <<>>]

\* Mutant: a missing order is read as price 0 instead of raising.
PropertyReadFails_Lenient(sr, i) == i > Len(sr)

\* Reading serverRespond[i].top_ask.price and serverRespond[i].top_bid.price
\* raises a TypeError when serverRespond[i] is undefined (index past the end)
\* or when top_ask / top_bid is undefined.  (i is 1-based here.)
PropertyReadFails(sr, i) ==
    \/ i > Len(sr)
    \/ ~sr[i].top_ask.present
    \/ ~sr[i].top_bid.present

\* Mutant: the mid-price taken from the ask side alone.
MidPrice_AskOnly(q) == ToNumber(q.top_ask.price)

\* (top_ask.price + top_bid.price) / 2
MidPrice(q) == JsDiv(JsAdd(q.top_ask.price, q.top_bid.price), Num(2, 1))

\* Mutant: a zero divisor is guarded against and the ratio reported as 0.
Ratio_ZeroGuard(priceABC, priceDEF) ==
    IF priceDEF = Num(0, 1) THEN Num(0, 1) ELSE JsDiv(priceABC, priceDEF)

\* priceABC / priceDEF
Ratio(priceABC, priceDEF) == JsDiv(priceABC, priceDEF)

\* 1 + 0.05 and 1 - 0.05
UpperBound == JsAdd(Num(1, 1), Num(5, 100))

LowerBound == JsSub(Num(1, 1), Num(5, 100))

\* Mutants: the earlier of the two timestamps; always the first timestamp.
LaterTimestamp_Min(t0, t1) == IF t0 < t1 THEN t0 ELSE t1

LaterTimestamp_First(t0, t1) == t0

\* serverRespond[0].timestamp > serverRespond[1].timestamp ? [0] : [1]
LaterTimestamp(t0, t1) == IF t0 > t1 THEN t0 ELSE t1

\* Mutant: non-strict comparisons against the bounds.
TriggerAlert_NonStrict(ratio, upperBound, lowerBound) ==
    IF \/ JsGt(ratio, upperBound) \/ ratio = upperBound
       \/ JsLt(ratio, lowerBound) \/ ratio = lowerBound
    THEN ratio ELSE Undefined

\* (ratio > upperBound || ratio < lowerBound) ? ratio : undefined
TriggerAlert(ratio, upperBound, lowerBound) ==
    IF JsGt(ratio, upperBound) \/ JsLt(ratio, lowerBound) THEN ratio ELSE Undefined

GenerateRow(sr) ==
    IF PropertyReadFails(sr, 1) \/ PropertyReadFails(sr, 2)
    THEN Throw("TypeError")
    ELSE LET priceABC == MidPrice(sr[1])
             priceDEF == MidPrice(sr[2])
             ratio == Ratio(priceABC, priceDEF)
             upperBound == UpperBound
             lowerBound == LowerBound
         IN  Return([price_abc |-> priceABC,
                     price_def |-> priceDEF,
                     ratio |-> ratio,
                     timestamp |-> LaterTimestamp(sr[1].timestamp, sr[2].timestamp),
                     upper_bound |-> upperBound,
                     lower_bound |-> lowerBound,
                     trigger_alert |-> TriggerAlert(ratio, upperBound, lowerBound)])

-----------------------------------------------------------------------------
(* Specification of generateRow alone: any argument list, one call *)

GraphIdle ==
    /\ mounted = FALSE
    /\ table = "undefined"
    /\ attrs = <<>>
    /\ props_data = <<>>
    /\ updates = <<>>
    /\ calls = 0

InitRow ==
    /\ serverRespond \in Inputs
    /\ ret = NotCalled
    /\ GraphIdle

CallGenerateRow ==
    /\ ret = NotCalled
    /\ ret' = GenerateRow(serverRespond)
    /\ UNCHANGED <<serverRespond, mounted, table, attrs, props_data, updates, calls>>

NextRow == CallGenerateRow

SpecRow == InitRow /\ [][NextRow]_vars

-----------------------------------------------------------------------------
(* Properties of generateRow, checked under SpecRow *)

Returned == ret.kind = "return"

Row == ret.row[1]

\* x > 1.05 and x < 0.95, by cross-multiplication on the fraction x.n / x.d
\* (false of NaN = 0/0 on both sides, true of +Infinity resp. -Infinity).
Above105(x) == 100 * x.n > 105 * x.d

Below095(x) == 100 * x.n < 95 * x.d

\* C1: the returned record's trigger_alert is present iff ratio > 1.05 or
\* ratio < 0.95 (strictly; a ratio equal to a bound gives no alert); when
\* present it equals the ratio, and otherwise it is undefined, never 0.
C1_TriggerAlertIffOutOfBounds ==
    Returned =>
        /\ (Row.trigger_alert # Undefined) <=> (Above105(Row.ratio) \/ Below095(Row.ratio))
        /\ Row.trigger_alert # Undefined => Row.trigger_alert = Row.ratio

\* A call returned with the ratio exactly on the upper bound, and no alert.
C1_Witness ==
    /\ Returned
    /\ Row.ratio = Num(105, 100)
    /\ Row.trigger_alert = Undefined

\* The snapshot at (1-based) index i is missing, or carries no top_ask or no
\* top_bid order.
LacksOrder(sr, i) ==
    i > Len(sr) \/ sr[i].top_ask = NoOrder \/ sr[i].top_bid = NoOrder

\* The snapshot at index i is there with both orders, one without a price.
LacksPrice(sr, i) ==
    /\ ~LacksOrder(sr, i)
    /\ sr[i].top_ask.price = Undefined \/ sr[i].top_bid.price = Undefined

\* C2 as stated: with fewer than two snapshots, or a snapshot lacking its ask
\* or bid price, the call fails with an InvalidInputError and returns no record.
C2_Original ==
    (/\ ret # NotCalled
     /\ \/ Len(serverRespond) < 2
        \/ \E i \in 1..2 : LacksOrder(serverRespond, i) \/ LacksPrice(serverRespond, i))
    => ret = Throw("InvalidInputError")

\* C2 amended: the call fails, with a TypeError and no record, exactly when
\* there are fewer than two snapshots or one of the first two snapshots has no
\* top_ask or no top_bid order; an order that is present without a price does
\* not fail the call but yields a NaN mid-price.
C2_FailsWithTypeError ==
    ret # NotCalled =>
        /\ (\E i \in 1..2 : LacksOrder(serverRespond, i)) <=> ret = Throw("TypeError")
        /\ ret.kind = "throw" => ret.row = <<>>
        /\ (~LacksOrder(serverRespond, 1) /\ ~LacksOrder(serverRespond, 2))
              => /\ Returned
                 /\ LacksPrice(serverRespond, 1) => IsNaN(Row.price_abc)
                 /\ LacksPrice(serverRespond, 2) => IsNaN(Row.price_def)

\* A call with two snapshots, the second without a top_bid order, has failed.
C2_Witness ==
    /\ ret.kind = "throw"
    /\ Len(serverRespond) = 2
    /\ ~LacksOrder(serverRespond, 1)
    /\ serverRespond[2].top_ask # NoOrder
    /\ serverRespond[2].top_bid = NoOrder

Zero == Num(0, 1)

\* C3 as stated: whenever the mid-price of instrument B is 0, for every
\* mid-price of A, the call returns, the ratio is non-finite, and
\* trigger_alert is present and equals the ratio.
C3_Original ==
    (Returned /\ Row.price_def = Zero) =>
        /\ ~IsFinite(Row.ratio)
        /\ Row.trigger_alert # Undefined
        /\ Row.trigger_alert = Row.ratio

\* C3 amended: when the mid-price of B is 0 the call returns a non-finite
\* ratio; for a non-zero mid-price of A the ratio is +-Infinity and
\* trigger_alert is present and equal to it; for a mid-price of A that is 0
\* (or NaN) the ratio is NaN and trigger_alert is absent.
C3_ZeroDivisor ==
    (ret # NotCalled
       /\ ~LacksOrder(serverRespond, 1) /\ ~LacksOrder(serverRespond, 2)
       /\ ~LacksPrice(serverRespond, 2)
       /\ serverRespond[2].top_ask.price.n + serverRespond[2].top_bid.price.n = 0)
    => /\ Returned
       /\ Row.price_def = Zero
       /\ ~IsFinite(Row.ratio)
       /\ IF IsFinite(Row.price_abc) /\ Row.price_abc # Zero
          THEN Row.ratio.n # 0 /\ Row.trigger_alert = Row.ratio
          ELSE IsNaN(Row.ratio) /\ Row.trigger_alert = Undefined

\* A call with B at 0 and A above 0 returned +Infinity as ratio and as alert.
C3_Witness ==
    /\ Returned
    /\ Row.price_def = Zero
    /\ Row.price_abc = Num(MaxPrice, 1)
    /\ Row.ratio = Infinity
    /\ Row.trigger_alert = Infinity

\* C4: the record's timestamp is the later of the two input timestamps: not
\* earlier than either and equal to one of them (so equal to both on a tie).
C4_TimestampIsLater ==
    Returned =>
        /\ Row.timestamp >= serverRespond[1].timestamp
        /\ Row.timestamp >= serverRespond[2].timestamp
        /\ Row.timestamp \in {serverRespond[1].timestamp, serverRespond[2].timestamp}

\* A call returned where the snapshot at index 0 carries the later timestamp.
C4_Witness ==
    /\ Returned
    /\ serverRespond[1].timestamp > serverRespond[2].timestamp
    /\ Row.timestamp = serverRespond[1].timestamp

\* The fraction p is half the sum of the fractions a and b.
IsMean2(p, a, b) == p.d > 0 /\ 2 * p.n * a.d * b.d = (a.n * b.d + b.n * a.d) * p.d

\* The fraction r is the quotient a / b of finite fractions, b # 0.
IsQuotient(r, a, b) == r.d > 0 /\ r.n * b.n * a.d = a.n * b.d * r.d

ValidPair(sr) ==
    /\ Len(sr) = 2
    /\ \A i \in 1..2 : ~LacksOrder(sr, i) /\ ~LacksPrice(sr, i)

\* C9: for every valid quote pair, price_abc is (ask + bid) / 2 of the
\* snapshot at index 0, price_def that of the snapshot at index 1, and the
\* ratio is price_abc / price_def.
C9_MidPricesAndRatio ==
    (ret # NotCalled /\ ValidPair(serverRespond)) =>
        /\ Returned
        /\ IsMean2(Row.price_abc, serverRespond[1].top_ask.price, serverRespond[1].top_bid.price)
        /\ IsMean2(Row.price_def, serverRespond[2].top_ask.price, serverRespond[2].top_bid.price)
        /\ IF Row.price_def # Zero
           THEN IsQuotient(Row.ratio, Row.price_abc, Row.price_def)
           ELSE Row.ratio.d = 0 /\ Row.ratio.n = Sign(Row.price_abc.n)

\* A call returned for a pair whose four prices all differ, with A below B.
C9_Witness ==
    /\ Returned
    /\ ValidPair(serverRespond)
    /\ serverRespond[1].top_ask.price = Num(MaxPrice - 1, 1)
    /\ serverRespond[1].top_bid.price = Num(MaxPrice - 3, 1)
    /\ serverRespond[2].top_ask.price = Num(MaxPrice, 1)
    /\ serverRespond[2].top_bid.price = Num(MaxPrice - 2, 1)
    /\ JsLt(Row.ratio, Num(1, 1))

-----------------------------------------------------------------------------
(* Graph: componentDidMount and componentDidUpdate *)

\* The schema componentDidMount creates the table with.
Schema ==
    [price_abc |-> "float", price_def |-> "float", upper_bound |-> "float",
     lower_bound |-> "float", trigger_alert |-> "float", ratio |-> "float",
     timestamp |-> "date"]

\* Attributes componentDidMount sets on the <perspective-viewer> element.
ViewerAttributes_Sum ==
    [view |-> "y_line",
     row_pivots |-> <<"timestamp">>,
     columns |-> <<"ratio", "lower_bound", "upper_bound", "trigger_alert">>,
     aggregates |-> [price_abc |-> "sum", price_def |-> "sum", upper_bound |-> "sum",
                     lower_bound |-> "sum", trigger_alert |-> "sum", ratio |-> "sum",
                     timestamp |-> "distinct count"]]

ViewerAttributes ==
    [view |-> "y_line",
     row_pivots |-> <<"timestamp">>,
     columns |-> <<"ratio", "lower_bound", "upper_bound", "trigger_alert">>,
     aggregates |-> [price_abc |-> "avg", price_def |-> "avg", upper_bound |-> "avg",
                     lower_bound |-> "avg", trigger_alert |-> "avg", ratio |-> "avg",
                     timestamp |-> "distinct count"]]

\* Quote pairs (and malformed argument lists) the parent passes as props.data.
FeedQuote(p, ts) == Quote(Order(Num(p, 1)), Order(Num(p, 1)), ts)

FeedTimes == {<<ta, tb>> \in Times \X Times : ta = 1 \/ tb = 1}

Feed ==
    {<<>>,
     <<FeedQuote(MaxPrice, 1)>>,
     <<Quote(NoOrder, Order(Num(MaxPrice, 1)), 1), FeedQuote(MaxPrice - 2, 1)>>,
     <<Quote(Order(Undefined), Order(Num(MaxPrice, 1)), 1), FeedQuote(MaxPrice - 2, 1)>>,
     <<FeedQuote(MaxPrice, 1), FeedQuote(0, 1)>>}
    \cup {<<FeedQuote(p, t[1]), FeedQuote(MaxPrice - 2, t[2])>> :
             p \in {MaxPrice - 2, MaxPrice}, t \in FeedTimes}

\* table.update(batch): the sink appends the batch to its log of updates.
TableUpdate(log, batch) == Append(log, batch)

-----------------------------------------------------------------------------
(* The sink's displayed view: the perspective viewer groups the table's rows *)
(* by the row-pivot columns and aggregates every column per group.           *)

RECURSIVE Flatten(_)
Flatten(batches) ==
    IF batches = <<>> THEN <<>> ELSE Head(batches) \o Flatten(Tail(batches))

\* The rows held by the table: every batch submitted, in order.
TableRows == Flatten(updates)

GroupKey(row, pivots) == [i \in DOMAIN pivots |-> row[pivots[i]]]

RECURSIVE SumOf(_)
SumOf(values) ==
    IF values = <<>> THEN Num(0, 1) ELSE JsAdd(Head(values), SumOf(Tail(values)))

\* An undefined value in a float column is stored as a null cell.
IsNull(c, v) == Schema[c] = "float" /\ v = Undefined

\* The values of column c in the rows of group k, without the null cells.
GroupValues(rows, pivots, k, c) ==
    LET members == SelectSeq(rows, LAMBDA r : GroupKey(r, pivots) = k)
        column == [i \in DOMAIN members |-> members[i][c]]
    IN  SelectSeq(column, LAMBDA v : ~IsNull(c, v))

Aggregate(how, values) ==
    CASE how = "avg" ->
            IF values = <<>> THEN Undefined
            ELSE JsDiv(SumOf(values), Num(Len(values), 1))
      [] how = "sum" -> SumOf(values)
      [] how = "distinct count" ->
            Num(Cardinality({values[i] : i \in DOMAIN values}), 1)

\* One displayed row per group; each cell the column's aggregate over the group.
View(rows, a) ==
    LET keys == {GroupKey(rows[i], a.row_pivots) : i \in DOMAIN rows}
    IN  [k \in keys |->
            [c \in DOMAIN a.aggregates |->
                Aggregate(a.aggregates[c], GroupValues(rows, a.row_pivots, k, c))]]

DisplayedView == IF table = "undefined" THEN <<>> ELSE View(TableRows, attrs)

Init ==
    /\ serverRespond = <<>>
    /\ ret = NotCalled
    /\ mounted = FALSE
    /\ table = "undefined"
    /\ attrs = <<>>
    /\ props_data = <<>>
    /\ updates = <<>>
    /\ calls = 0

\* componentDidMount; worker tells whether window.perspective and its worker exist.
ComponentDidMount(worker) ==
    /\ mounted = FALSE
    /\ mounted' = TRUE
    /\ IF worker
       THEN table' = "table" /\ attrs' = ViewerAttributes
       ELSE UNCHANGED <<table, attrs>>
    /\ UNCHANGED <<serverRespond, ret, props_data, updates, calls>>

\* Mutant: no check that the table exists.
ComponentDidUpdate_NoGuard(data) ==
    /\ calls < MaxArrivals
    /\ props_data' = data
    /\ LET r == GenerateRow(data)
       IN  /\ serverRespond' = data
           /\ ret' = r
           /\ calls' = calls + 1
           /\ IF r.kind = "throw"
              THEN UNCHANGED updates
              ELSE updates' = TableUpdate(updates, r.row)
    /\ UNCHANGED <<mounted, table, attrs>>

\* Mutant: the update is issued twice.
ComponentDidUpdate_Twice(data) ==
    /\ props_data' = data
    /\ IF table # "undefined"
       THEN /\ calls < MaxArrivals
            /\ LET r == GenerateRow(data)
               IN  /\ serverRespond' = data
                   /\ ret' = r
                   /\ calls' = calls + 1
                   /\ IF r.kind = "throw"
                      THEN UNCHANGED updates
                      ELSE updates' = TableUpdate(TableUpdate(updates, r.row), r.row)
       ELSE UNCHANGED <<serverRespond, ret, calls, updates>>
    /\ UNCHANGED <<mounted, table, attrs>>

\* Mutant: a failure of generateRow is swallowed and an empty batch submitted.
ComponentDidUpdate_Swallow(data) ==
    /\ props_data' = data
    /\ IF table # "undefined"
       THEN /\ calls < MaxArrivals
            /\ LET r == GenerateRow(data)
               IN  /\ serverRespond' = data
                   /\ ret' = r
                   /\ calls' = calls + 1
                   /\ updates' = TableUpdate(updates, r.row)
       ELSE UNCHANGED <<serverRespond, ret, calls, updates>>
    /\ UNCHANGED <<mounted, table, attrs>>

\* A re-render with props.data = data, followed by componentDidUpdate:
\*   if (this.table) this.table.update([DataManipulator.generateRow(this.props.data)])
\* An error thrown by generateRow propagates before table.update is called.
ComponentDidUpdate(data) ==
    /\ props_data' = data
    /\ IF table # "undefined"
       THEN /\ calls < MaxArrivals
            /\ LET r == GenerateRow(data)
               IN  /\ serverRespond' = data
                   /\ ret' = r
                   /\ calls' = calls + 1
                   /\ IF r.kind = "throw"
                      THEN UNCHANGED updates
                      ELSE updates' = TableUpdate(updates, r.row)
       ELSE UNCHANGED <<serverRespond, ret, calls, updates>>
    /\ UNCHANGED <<mounted, table, attrs>>

Next ==
    \/ \E worker \in BOOLEAN : ComponentDidMount(worker)
    \/ \E data \in Feed : ComponentDidUpdate(data)

Spec == Init /\ [][Next]_vars

-----------------------------------------------------------------------------
(* Properties of the Graph component and its sink, checked under Spec *)

SinkTimestamps == [i \in DOMAIN TableRows |-> TableRows[i].timestamp]

NonDecreasing(ts) == \A i, j \in DOMAIN ts : i < j => ts[i] <= ts[j]

Last(seq) == seq[Len(seq)]

\* C5 as stated: over any sequence of arrivals, the records submitted to the
\* sink have non-decreasing timestamps.
C5_Original == NonDecreasing(SinkTimestamps)

\* C5 amended: every record is submitted behind the records submitted before
\* it and carries the later of the two timestamps of the pair whose arrival
\* produced it; the component neither reorders nor withholds records, so the
\* submitted timestamps are non-decreasing exactly as long as no arriving
\* pair's later timestamp is earlier than that of the record submitted last.
C5_SubmittedInArrivalOrder ==
    [][updates' # updates =>
          LET t0 == props_data'[1].timestamp
              t1 == props_data'[2].timestamp
              t == Last(TableRows').timestamp
          IN  /\ Len(TableRows') = Len(TableRows) + 1
              /\ SubSeq(TableRows', 1, Len(TableRows)) = TableRows
              /\ t >= t0 /\ t >= t1 /\ t \in {t0, t1}
              /\ NonDecreasing(SinkTimestamps') <=>
                    /\ NonDecreasing(SinkTimestamps)
                    /\ TableRows = <<>> \/ Last(TableRows).timestamp <= t]_vars

\* Two records were submitted, the second with the later timestamp.
C5_Witness ==
    /\ Len(TableRows) = 2
    /\ SinkTimestamps[1] < SinkTimestamps[2]

\* C6: once the table exists, every arrival of a quote pair for which
\* generateRow returns a record makes exactly one call of generateRow and one
\* sink update, appended behind the earlier ones, whose batch holds exactly
\* that record.
C6_OneUpdatePerArrival ==
    [][(table # "undefined" /\ mounted' = mounted /\ GenerateRow(props_data').kind = "return")
          => /\ calls' = calls + 1
             /\ Len(updates') = Len(updates) + 1
             /\ SubSeq(updates', 1, Len(updates)) = updates
             /\ Len(Last(updates')) = 1
             /\ Last(updates')[1] = GenerateRow(props_data').row[1]]_vars

\* Two arrivals produced two different single-record updates.
C6_Witness ==
    /\ calls = 2
    /\ Len(updates) = 2
    /\ Len(updates[1]) = 1 /\ Len(updates[2]) = 1
    /\ updates[1] # updates[2]

NumericFields == {c \in DOMAIN Schema : Schema[c] = "float"}

\* The cell m is the arithmetic mean of the values: absent when there are
\* none, the value from which the deviations sum to 0 when all are finite,
\* and non-finite otherwise.
IsMeanOf(m, values) ==
    IF values = <<>> THEN m = Undefined
    ELSE IF \A i \in DOMAIN values : IsFinite(values[i])
         THEN IsFinite(m) /\ SumOf([i \in DOMAIN values |-> JsSub(values[i], m)]) = Zero
         ELSE m.t = "number" /\ ~IsFinite(m)

\* The values of field c present in the submitted records with timestamp ts.
FieldValuesAt(ts, c) ==
    LET at == SelectSeq(TableRows, LAMBDA r : r.timestamp = ts)
        present == SelectSeq(at, LAMBDA r : r[c] # Undefined)
    IN  [i \in DOMAIN present |-> present[i][c]]

\* The displayed view has exactly one row per distinct timestamp submitted,
\* and each numeric field of it is the mean over the records of that timestamp.
ViewIsMeanPerTimestamp ==
    table # "undefined" =>
        /\ DOMAIN DisplayedView = {<<TableRows[i].timestamp>> : i \in DOMAIN TableRows}
        /\ \A k \in DOMAIN DisplayedView : \A c \in NumericFields :
              IsMeanOf(DisplayedView[k][c], FieldValuesAt(k[1], c))

\* The rows the table held before the record submitted last.
RowsBefore == SubSeq(TableRows, 1, Len(TableRows) - 1)

\* The record submitted last is identical to a record submitted before it.
LastIsDuplicate ==
    /\ TableRows # <<>>
    /\ \E i \in DOMAIN RowsBefore : RowsBefore[i] = Last(TableRows)

Complete(row) ==
    /\ \A c \in NumericFields \ {"trigger_alert"} : row[c].t = "number"
    /\ row.timestamp \in Times

\* C8: every call of generateRow either returns one record with price_abc,
\* price_def, ratio, timestamp, upper_bound and lower_bound set, or fails
\* without a record; when it fails in componentDidUpdate no update reaches
\* the sink and the sink's contents are unchanged.
C8_NoPartialResult ==
    [][calls' # calls =>
          \/ /\ ret'.kind = "return"
             /\ Len(ret'.row) = 1
             /\ Complete(ret'.row[1])
             /\ Last(updates') = ret'.row
          \/ /\ ret'.kind = "throw"
             /\ ret'.row = <<>>
             /\ updates' = updates]_vars

\* A call failed in componentDidUpdate after an earlier record was submitted.
C8_Witness ==
    /\ ret.kind = "throw"
    /\ calls = 2
    /\ Len(updates) = 1

\* C10: while the table is undefined (before componentDidMount, or after it
\* without a perspective worker) componentDidUpdate neither calls generateRow
\* nor submits anything; creating the table submits nothing, and every later
\* update carries the record of the pair arriving then, so pairs that arrived
\* before are never submitted.
C10_NothingBeforeTable ==
    [][/\ table = "undefined" => updates = <<>> /\ calls = 0
       /\ (table = "undefined" /\ mounted' = mounted)
             => updates' = updates /\ calls' = calls /\ ret' = ret
       /\ mounted' # mounted => updates' = updates /\ calls' = calls
       /\ updates' # updates =>
             /\ table # "undefined"
             /\ updates' = Append(updates, GenerateRow(props_data').row)]_vars

\* A quote pair arrived after componentDidMount found no worker: nothing was
\* computed or submitted.
C10_Witness ==
    /\ mounted
    /\ table = "undefined"
    /\ ValidPair(props_data)
    /\ updates = <<>>
    /\ calls = 0
    /\ ret = NotCalled

====
